---- MODULE Spec2Model ----
(***************************************************************************)
(* Model of adscode3.py: the helper routines scaler, backscale,            *)
(* get_diff_entries and err_ranges, and the module-level analysis script   *)
(* (merge, cleaning, clustering, plots, curve fits).                       *)
(*                                                                         *)
(* Numbers are exact rationals <<n, d>> (d > 0, lowest terms).  The value  *)
(* a floating-point division by zero produces has denominator 0: 0/0 is    *)
(* NaN = <<0, 0>>, and n/0 is the infinity <<sign(n), 0>>.  A missing      *)
(* table cell is NaN, as in pandas.                                        *)
(***************************************************************************)
EXTENDS Integers, Sequences, FiniteSets, TLC

\* ------------------------------------------------------------------ bounds
MaxQuery == 2      \* longest query array x handed to err_ranges
MaxX == 2          \* query points are 1..MaxX
MaxParam == 1      \* fitted parameters are -MaxParam..MaxParam
MaxRows == 3       \* rows of a table handed to scaler
MaxCols == 2       \* columns of an array or a scale record handed to backscale
MaxKey == 4        \* key values of the tables get_diff_entries compares
MaxDfRows == 3     \* rows of each of those tables
MaxCountry == 3    \* countries 1..MaxCountry may appear in an indicator file

\* ------------------------------------------------------- program constants
NClusters == 3     \* KMeans(n_clusters=3)
NumCols == 2       \* the columns 2018_renewable and 2018_access handed to scaler

\* --------------------------------------------------------------- rationals
RECURSIVE Gcd(_, _)
Gcd(a, b) == IF b = 0 THEN a ELSE Gcd(b, a % b)

Abs(n) == IF n < 0 THEN -n ELSE n

\* n/d in lowest terms with a positive denominator (d # 0).
Rat(n, d) ==
    LET g == Gcd(Abs(n), Abs(d))
        s == IF d < 0 THEN -1 ELSE 1
    IN  <<s * (n \div g), s * (d \div g)>>

RInt(n) == <<n, 1>>
NaN == <<0, 0>>
IsNaN(v) == v = NaN
Finite(v) == v[2] # 0

\* Arithmetic on a non-finite operand gives NaN (the only non-finite value the
\* modelled code produces is the 0/0 of scaler).
RAdd(a, b) ==
    IF Finite(a) /\ Finite(b) THEN Rat(a[1] * b[2] + b[1] * a[2], a[2] * b[2]) ELSE NaN
RSub(a, b) ==
    IF Finite(a) /\ Finite(b) THEN Rat(a[1] * b[2] - b[1] * a[2], a[2] * b[2]) ELSE NaN
RMul(a, b) ==
    IF Finite(a) /\ Finite(b) THEN Rat(a[1] * b[1], a[2] * b[2]) ELSE NaN
\* IEEE division as numpy/pandas perform it: no exception, 0/0 = NaN, n/0 = +-inf.
RDiv(a, b) ==
    IF ~(Finite(a) /\ Finite(b)) THEN NaN
    ELSE IF b[1] = 0
         THEN (IF a[1] = 0 THEN NaN ELSE <<(IF a[1] < 0 THEN -1 ELSE 1), 0>>)
         ELSE Rat(a[1] * b[2], a[2] * b[1])
\* a <= b; false when either side is NaN.
RLeq(a, b) == Finite(a) /\ Finite(b) /\ a[1] * b[2] <= b[1] * a[2]
RMin(a, b) == IF RLeq(a, b) THEN a ELSE b
RMax(a, b) == IF RLeq(a, b) THEN b ELSE a

RECURSIVE Pow(_, _)
Pow(b, e) == IF e = 0 THEN 1 ELSE b * Pow(b, e - 1)

\* ------------------------------------------------------------ model functions
\* power_function(x, a, b) = a * x**b, for an integer exponent and x >= 1.
power_function(x, a, b) ==
    IF b >= 0 THEN RInt(a * Pow(x, b)) ELSE Rat(a, Pow(x, -b))

\* sigmoid_function(x, a, b) = a / (1 + exp(-b * x)); the exponential is taken
\* to base 2 so that every value is a rational (b is read in units of ln 2).
sigmoid_function(x, a, b) ==
    LET e == -b * x
    IN  IF e >= 0 THEN Rat(a, 1 + Pow(2, e))
                  ELSE Rat(a * Pow(2, -e), Pow(2, -e) + 1)

\* err_ranges takes any callable func(x, *param).  Besides the script's two
\* models, a one-parameter and a three-parameter callable stand for the
\* "all number of parameters" of its docstring.
FuncNames == {"power_function", "sigmoid_function", "bump", "parabola"}

Arity(func) ==
    CASE func = "bump" -> 1
      [] func = "parabola" -> 3
      [] OTHER -> 2

\* func(x_j, *p) at one query point.
CallFunc(func, xj, p) ==
    CASE func = "power_function" -> power_function(xj, p[1], p[2])
      [] func = "sigmoid_function" -> sigmoid_function(xj, p[1], p[2])
      [] func = "bump" -> RInt(p[1] * p[1] * xj)
      [] OTHER -> RInt(p[1] * xj * xj - p[2] * xj + p[3])

\* func(x, *p) on the whole query array (numpy broadcasting).
CallFuncArr(func, x, p) == [j \in 1..Len(x) |-> CallFunc(func, x[j], p)]

\* np.minimum / np.maximum, elementwise.
np_minimum(u, v) == [j \in 1..Len(u) |-> RMin(u[j], v[j])]
np_maximum(u, v) == [j \in 1..Len(u) |-> RMax(u[j], v[j])]

\* ------------------------------------------------------------------ err_ranges
\* uplow: one (p - s, p + s) pair per parameter, zip(param, sigma).
UpLow(param, sigma) ==
    [i \in 1..Len(param) |-> <<param[i] - sigma[i], param[i] + sigma[i]>>]

\* A variant that visits only the all-minus and the all-plus combination.
ProductEnds(uplow) ==
    << [i \in 1..Len(uplow) |-> uplow[i][1]], [i \in 1..Len(uplow) |-> uplow[i][2]] >>

\* list(itertools.product(*uplow)): every choice of one endpoint per
\* parameter, the last parameter varying fastest.
RECURSIVE Product(_)
Product(uplow) ==
    IF Len(uplow) = 0 THEN << <<>> >>
    ELSE LET rest == Product(Tail(uplow))
             lo == [k \in 1..Len(rest) |-> <<uplow[1][1]>> \o rest[k]]
             hi == [k \in 1..Len(rest) |-> <<uplow[1][2]>> \o rest[k]]
         IN  lo \o hi

\* A variant that starts the limits from the first combination instead of the
\* fitted parameters.
InitLimitsFirstCorner(func, x, param, sigma) ==
    CallFuncArr(func, x, Head(Product(UpLow(param, sigma))))

\* lower = func(x, *param); upper = lower
InitLimits(func, x, param, sigma) == CallFuncArr(func, x, param)

\* for p in pmix: y = func(x, *p); lower = min(lower, y); upper = max(upper, y)
RECURSIVE ErrLoop(_, _, _, _, _)
ErrLoop(func, x, pmix, lower, upper) ==
    IF Len(pmix) = 0 THEN [lower |-> lower, upper |-> upper]
    ELSE LET y == CallFuncArr(func, x, Head(pmix))
         IN  ErrLoop(func, x, Tail(pmix), np_minimum(lower, y), np_maximum(upper, y))

err_ranges(x, func, param, sigma) ==
    LET base == InitLimits(func, x, param, sigma)
        pmix == Product(UpLow(param, sigma))
    IN  ErrLoop(func, x, pmix, base, base)

\* ---------------------------------------------------------------- tables
\* A table (DataFrame / 2-d array) is a sequence of rows, each a sequence of
\* cells; a Series (df.min(), df.max(), df.mean()) is one cell per column.
NRows(t) == Len(t)
NCols(t) == IF Len(t) = 0 THEN 0 ELSE Len(t[1])
Column(t, c) == [r \in 1..Len(t) |-> t[r][c]]

\* Column reductions skip missing cells (pandas skipna=True); a column with no
\* value left reduces to NaN.
Present(col) == {r \in 1..Len(col) : ~IsNaN(col[r])}

ColMin(col) ==
    IF Present(col) = {} THEN NaN
    ELSE col[CHOOSE r \in Present(col) : \A q \in Present(col) : RLeq(col[r], col[q])]

ColMax(col) ==
    IF Present(col) = {} THEN NaN
    ELSE col[CHOOSE r \in Present(col) : \A q \in Present(col) : RLeq(col[q], col[r])]

RECURSIVE ColSum(_, _)
ColSum(col, r) ==
    IF r = 0 THEN RInt(0)
    ELSE IF IsNaN(col[r]) THEN ColSum(col, r - 1)
         ELSE RAdd(ColSum(col, r - 1), col[r])

ColMean(col) == RDiv(ColSum(col, Len(col)), RInt(Cardinality(Present(col))))

df_min(t, ncols) == [c \in 1..ncols |-> ColMin(Column(t, c))]
df_max(t, ncols) == [c \in 1..ncols |-> ColMax(Column(t, c))]
df_mean(t, ncols) == [c \in 1..ncols |-> ColMean(Column(t, c))]

\* df.fillna(0) / df.fillna(series): a missing cell takes the fill value of its
\* column, every other cell is kept.
fillna(t, fill) ==
    [r \in 1..Len(t) |->
        [c \in 1..Len(t[r]) |-> IF IsNaN(t[r][c]) THEN fill[c] ELSE t[r][c]]]

Zeros(ncols) == [c \in 1..ncols |-> RInt(0)]

\* ---------------------------------------------------------------- scaler
\* (df - df_min) / (df_max - df_min), cell by cell.
Normalize(v, lo, hi) == RDiv(RSub(v, lo), RSub(hi, lo))

scaler(df, ncols) ==
    LET lo == df_min(df, ncols)
        hi == df_max(df, ncols)
    IN  [df_normalized |->
            [r \in 1..Len(df) |-> [c \in 1..ncols |-> Normalize(df[r][c], lo[c], hi[c])]],
         df_min |-> lo,
         df_max |-> hi]

\* -------------------------------------------------------------- backscale
\* A variant that multiplies by the maximum instead of the range.
RescaleByMax(v, lo, hi) == RAdd(RMul(v, hi), lo)

\* arr[:, i] * (maxima[i] - minima[i]) + minima[i]
Rescale(v, lo, hi) == RAdd(RMul(v, RSub(hi, lo)), lo)

\* arr[:, i] = ...: column i of the array is overwritten in place.
SetColumn(arr, i, lo, hi) ==
    [r \in 1..Len(arr) |->
        [c \in 1..Len(arr[r]) |-> IF c = i THEN Rescale(arr[r][c], lo, hi) ELSE arr[r][c]]]

\* for i in range(len(minima)): one pass per entry of the scale record; an
\* entry past the array's last column raises numpy's IndexError, with the
\* columns before it already overwritten.
RECURSIVE BackLoop(_, _, _, _)
BackLoop(arr, minima, maxima, i) ==
    IF i > Len(minima) THEN [arr |-> arr, outcome |-> "returned"]
    ELSE IF i > NCols(arr) THEN [arr |-> arr, outcome |-> "IndexError"]
    ELSE BackLoop(SetColumn(arr, i, minima[i], maxima[i]), minima, maxima, i + 1)

\* backscale(arr, df_min, df_max): the contents of arr when the call ends and
\* how it ended; on "returned" the value returned is arr itself.
backscale(arr, minima, maxima) == BackLoop(arr, minima, maxima, 1)

\* -------------------------------------------------------- get_diff_entries
\* A table is reduced to its key column: a sequence of keys, one per row.
\* Keys are 1..MaxKey in their lexicographic order.
KeySet(df) == {df[r] : r \in 1..Len(df)}
Count(df, k) == Cardinality({r \in 1..Len(df) : df[r] = k})

Repeat(v, n) == [i \in 1..n |-> v]

RECURSIVE SortedSeq(_)
SortedSeq(S) ==
    IF S = {} THEN <<>>
    ELSE LET m == CHOOSE k \in S : \A j \in S : k <= j
         IN  <<m>> \o SortedSeq(S \ {m})

RECURSIVE Concat(_)
Concat(ss) == IF Len(ss) = 0 THEN <<>> ELSE Head(ss) \o Concat(Tail(ss))

\* A variant that joins with how="left": the keys of the right side alone are lost.
MergeLeftKeys(left, right) ==
    LET ks == SortedSeq(KeySet(left))
        n(k) == IF Count(right, k) > 0 THEN Count(left, k) * Count(right, k)
                ELSE Count(left, k)
    IN  Concat([i \in 1..Len(ks) |-> Repeat(ks[i], n(ks[i]))])

\* pd.merge(left, right, on=column, how="outer"): the keys of both sides in
\* sorted order; a key of both sides gives one row per pair of matching rows,
\* a key of one side gives that side's rows.
MergeOuterKeys(left, right) ==
    LET ks == SortedSeq(KeySet(left) \cup KeySet(right))
        n(k) == IF Count(left, k) > 0 /\ Count(right, k) > 0
                THEN Count(left, k) * Count(right, k)
                ELSE Count(left, k) + Count(right, k)
    IN  Concat([i \in 1..Len(ks) |-> Repeat(ks[i], n(ks[i]))])

\* pd.merge(left, right, on=column, how="inner"): the left rows in order, each
\* once per matching right row.
MergeInnerKeys(left, right) ==
    Concat([r \in 1..Len(left) |-> Repeat(left[r], Count(right, left[r]))])

\* df_merge = pd.merge(df_out, df_in, on=column, how="outer") with
\* df_in["exists"] = "Y": rows <<key, exists>>; a key df_in lacks has no
\* "exists" value ("nan").
MergeExists(df_out, df_in) ==
    LET ks == SortedSeq(KeySet(df_out) \cup KeySet(df_in))
        rows(k) ==
            IF Count(df_in, k) = 0 THEN Repeat(<<k, "nan">>, Count(df_out, k))
            ELSE IF Count(df_out, k) = 0 THEN Repeat(<<k, "Y">>, Count(df_in, k))
            ELSE Repeat(<<k, "Y">>, Count(df_out, k) * Count(df_in, k))
    IN  Concat([i \in 1..Len(ks) |-> rows(ks[i])])

\* df_merge[df_merge["exists"] != "Y"][column].to_list()
RECURSIVE DiffKeys(_)
DiffKeys(df_merge) ==
    IF Len(df_merge) = 0 THEN <<>>
    ELSE (IF Head(df_merge)[2] # "Y" THEN <<Head(df_merge)[1]>> ELSE <<>>)
         \o DiffKeys(Tail(df_merge))

get_diff_entries(df1, df2) ==
    LET df_out == MergeOuterKeys(df1, df2)
        df_in == MergeInnerKeys(df1, df2)
    IN  DiffKeys(MergeExists(df_out, df_in))

\* ------------------------------------------------------------------ state
VARIABLES
    \* one call of err_ranges
    e_x, e_func, e_param, e_sigma, e_ret, e_pc,
    \* scaler followed by backscale of its own output
    s_df, s_scaled, s_back, s_pc,
    \* one call of backscale on the cluster centres
    b_arr, b_arg, b_min, b_max, b_ret, b_pc,
    \* one call of get_diff_entries
    d_df1, d_df2, d_ret, d_pc,
    \* the script, lines 122-157
    m_renew, m_access, m_raw, m_merged, m_zero, m_means, m_scaled, m_clustered,
    m_ns, m_error, m_pc,
    \* the script's fitting block, lines 159-204
    f_params, f_underscore, f_call, f_pc

errVars == <<e_x, e_func, e_param, e_sigma, e_ret, e_pc>>
scaleVars == <<s_df, s_scaled, s_back, s_pc>>
backVars == <<b_arr, b_arg, b_min, b_max, b_ret, b_pc>>
diffVars == <<d_df1, d_df2, d_ret, d_pc>>
scriptVars == <<m_renew, m_access, m_raw, m_merged, m_zero, m_means, m_scaled, m_clustered,
                m_ns, m_error, m_pc>>
fitVars == <<f_params, f_underscore, f_call, f_pc>>

vars == <<errVars, scaleVars, backVars, diffVars, scriptVars, fitVars>>

\* A part of the program that a specification does not run stays idle.
ErrIdle ==
    /\ e_x = <<>> /\ e_func = "" /\ e_param = <<>> /\ e_sigma = <<>>
    /\ e_ret = <<>> /\ e_pc = "idle"
ScaleIdle == s_df = <<>> /\ s_scaled = <<>> /\ s_back = <<>> /\ s_pc = "idle"
BackIdle ==
    /\ b_arr = <<>> /\ b_arg = <<>> /\ b_min = <<>> /\ b_max = <<>>
    /\ b_ret = "" /\ b_pc = "idle"
DiffIdle == d_df1 = <<>> /\ d_df2 = <<>> /\ d_ret = <<>> /\ d_pc = "idle"
ScriptIdle ==
    /\ m_renew = <<>> /\ m_access = <<>> /\ m_raw = <<>> /\ m_merged = <<>>
    /\ m_zero = <<>>
    /\ m_means = <<>> /\ m_scaled = <<>> /\ m_clustered = FALSE
    /\ m_ns = {} /\ m_error = "" /\ m_pc = "idle"
FitIdle ==
    /\ f_params = <<>> /\ f_underscore = <<>> /\ f_call = <<>> /\ f_pc = "idle"

\* ------------------------------------------------------- err_ranges, called
Queries == UNION {[1..n -> 1..MaxX] : n \in 1..MaxQuery}
ParamVals == (-MaxParam)..MaxParam
\* A sigma is zero (no spread) or one unit.
SigmaVals == {0, 1}

ErrInit ==
    /\ e_func \in FuncNames
    /\ e_x \in Queries
    /\ e_param \in [1..Arity(e_func) -> ParamVals]
    /\ e_sigma \in [1..Arity(e_func) -> SigmaVals]
    /\ e_ret = <<>>
    /\ e_pc = "call"
    /\ ScaleIdle /\ BackIdle /\ DiffIdle /\ ScriptIdle /\ FitIdle

\* lower, upper = err_ranges(x, func, param, sigma)
ErrRanges ==
    /\ e_pc = "call"
    /\ e_ret' = err_ranges(e_x, e_func, e_param, e_sigma)
    /\ e_pc' = "returned"
    /\ UNCHANGED <<e_x, e_func, e_param, e_sigma>>
    /\ UNCHANGED <<scaleVars, backVars, diffVars, scriptVars, fitVars>>

ErrNext == ErrRanges

SpecErr == ErrInit /\ [][ErrNext]_vars

\* ------------------------------------------------- scaler, then backscale
\* Numeric tables of 1..MaxRows rows and 1..NumCols columns.
CellVals == {RInt(10), RInt(20), RInt(40)}
Tables(rows, cols, vals) == [1..rows -> [1..cols -> vals]]
NumericTables ==
    UNION {Tables(r, c, CellVals) : r \in 1..MaxRows, c \in 1..NumCols}

ScaleInit ==
    /\ s_df \in NumericTables
    /\ s_scaled = <<>>
    /\ s_back = <<>>
    /\ s_pc = "scaler"
    /\ ErrIdle /\ BackIdle /\ DiffIdle /\ ScriptIdle /\ FitIdle

\* normalized, df_min, df_max = scaler(df)
Scaler ==
    /\ s_pc = "scaler"
    /\ s_scaled' = scaler(s_df, NCols(s_df))
    /\ s_pc' = "backscale"
    /\ UNCHANGED <<s_df, s_back>>
    /\ UNCHANGED <<errVars, backVars, diffVars, scriptVars, fitVars>>

\* backscale(normalized.to_numpy(), df_min, df_max)
BackscaleNormalized ==
    /\ s_pc = "backscale"
    /\ s_back' = backscale(s_scaled.df_normalized,
                           s_scaled.df_min, s_scaled.df_max)
    /\ s_pc' = "done"
    /\ UNCHANGED <<s_df, s_scaled>>
    /\ UNCHANGED <<errVars, backVars, diffVars, scriptVars, fitVars>>

ScaleNext == Scaler \/ BackscaleNormalized

SpecScale == ScaleInit /\ [][ScaleNext]_vars

\* ------------------------------------------- backscale of cluster centres
\* kmeans.cluster_centers_: NClusters rows in normalised coordinates.  The
\* scale record is any record of 1..MaxCols entries with min <= max.
NormVals == {RInt(0), RInt(1)}
CenterArrays == UNION {Tables(NClusters, c, NormVals) : c \in 1..MaxCols}
ScaleVals == {RInt(10), RInt(20)}
ScaleRecords ==
    UNION {{rec \in [1..n -> ScaleVals \X ScaleVals] :
                \A i \in 1..n : RLeq(rec[i][1], rec[i][2])} : n \in 1..MaxCols}

BackInit ==
    /\ b_arr \in CenterArrays
    /\ b_arg = <<>>
    /\ \E rec \in ScaleRecords :
          /\ b_min = [i \in 1..Len(rec) |-> rec[i][1]]
          /\ b_max = [i \in 1..Len(rec) |-> rec[i][2]]
    /\ b_ret = "None"
    /\ b_pc = "call"
    /\ ErrIdle /\ ScaleIdle /\ DiffIdle /\ ScriptIdle /\ FitIdle

\* cluster_centers = backscale(kmeans.cluster_centers_, min_values, max_values)
\* b_arr is the array object the caller passed; b_arg keeps what it held at
\* the call.  backscale returns that same object (b_ret names it).
Backscale ==
    /\ b_pc = "call"
    /\ b_arg' = b_arr
    /\ LET res == backscale(b_arr, b_min, b_max)
       IN  /\ b_arr' = res.arr
           /\ b_pc' = res.outcome
           /\ b_ret' = IF res.outcome = "returned" THEN "arr" ELSE "None"
    /\ UNCHANGED <<b_min, b_max>>
    /\ UNCHANGED <<errVars, scaleVars, diffVars, scriptVars, fitVars>>

BackNext == Backscale

SpecBack == BackInit /\ [][BackNext]_vars

\* ------------------------------------------------------- get_diff_entries
KeyColumns == UNION {[1..n -> 1..MaxKey] : n \in 0..MaxDfRows}

DiffInit ==
    /\ d_df1 \in KeyColumns
    /\ d_df2 \in KeyColumns
    /\ d_ret = <<>>
    /\ d_pc = "call"
    /\ ErrIdle /\ ScaleIdle /\ BackIdle /\ ScriptIdle /\ FitIdle

\* diff_list = get_diff_entries(df1, df2, column)
GetDiffEntries ==
    /\ d_pc = "call"
    /\ d_ret' = get_diff_entries(d_df1, d_df2)
    /\ d_pc' = "returned"
    /\ UNCHANGED <<d_df1, d_df2>>
    /\ UNCHANGED <<errVars, scaleVars, backVars, scriptVars, fitVars>>

DiffNext == GetDiffEntries

SpecDiff == DiffInit /\ [][DiffNext]_vars
\* ------------------------------------------------- the script, lines 122-157
\* Each indicator file, reduced to its Country and 2018 columns: one row per
\* country it lists, the 2018 value possibly missing.
Countries == 1..MaxCountry
RawVals == {NaN, RInt(10), RInt(20)}
Frames == UNION {[S -> RawVals] : S \in SUBSET Countries}

\* Names the script reads before this point are bound by lines 1-8.
ScriptInit ==
    /\ m_renew \in Frames
    /\ m_access \in Frames
    /\ m_raw = <<>> /\ m_merged = <<>> /\ m_zero = <<>> /\ m_means = <<>>
    /\ m_scaled = <<>>
    /\ m_clustered = FALSE
    /\ m_ns = {"renewable_electricity_output", "access_to_electricity"}
    /\ m_error = "none"
    /\ m_pc = "merge"
    /\ ErrIdle /\ ScaleIdle /\ BackIdle /\ DiffIdle /\ FitIdle

\* merged_data = pd.merge(renewable, access, on='Country'): the countries of
\* both files, columns <<2018_renewable, 2018_access>>.
MergeOnCountry(renew, access) ==
    LET both == SortedSeq(DOMAIN renew \cap DOMAIN access)
    IN  [i \in 1..Len(both) |-> <<renew[both[i]], access[both[i]]>>]

\* A variant that drops the result of fillna(0) (no inplace=True).
FillZeroDropped(t) == t

\* merged_data.fillna(0, inplace=True)
FillZero(t) == fillna(t, Zeros(NumCols))

\* merged_data.fillna(column_means, inplace=True)
FillMeans(t, means) == fillna(t, means)

HasNaN(t) == \E r \in 1..Len(t) : \E c \in 1..Len(t[r]) : IsNaN(t[r][c])

Merge ==
    /\ m_pc = "merge"
    /\ m_merged' = MergeOnCountry(m_renew, m_access)
    /\ m_raw' = m_merged'
    /\ m_ns' = m_ns \cup {"renewable_electricity_data", "access_to_electricity_data",
                          "merged_data"}
    /\ m_pc' = "fillna_zero"
    /\ UNCHANGED <<m_renew, m_access, m_zero, m_means, m_scaled, m_clustered, m_error>>
    /\ UNCHANGED <<errVars, scaleVars, backVars, diffVars, fitVars>>

\* m_zero keeps the table as the zero fill left it.
FillNaZero ==
    /\ m_pc = "fillna_zero"
    /\ m_merged' = FillZero(m_merged)
    /\ m_zero' = m_merged'
    /\ m_pc' = "column_means"
    /\ UNCHANGED <<m_renew, m_access, m_raw, m_means, m_scaled, m_clustered, m_ns, m_error>>
    /\ UNCHANGED <<errVars, scaleVars, backVars, diffVars, fitVars>>

\* column_means = merged_data.mean(), over the two numeric columns (the
\* Country column has no mean).
ColumnMeans ==
    /\ m_pc = "column_means"
    /\ m_means' = df_mean(m_merged, NumCols)
    /\ m_ns' = m_ns \cup {"column_means"}
    /\ m_pc' = "fillna_means"
    /\ UNCHANGED <<m_renew, m_access, m_raw, m_merged, m_zero, m_scaled, m_clustered, m_error>>
    /\ UNCHANGED <<errVars, scaleVars, backVars, diffVars, fitVars>>

FillNaMeans ==
    /\ m_pc = "fillna_means"
    /\ m_merged' = FillMeans(m_merged, m_means)
    /\ m_pc' = "scaler"
    /\ UNCHANGED <<m_renew, m_access, m_raw, m_zero, m_means, m_scaled, m_clustered,
                   m_ns, m_error>>
    /\ UNCHANGED <<errVars, scaleVars, backVars, diffVars, fitVars>>

\* normalized_data, min_values, max_values = scaler(merged_data[[...]])
ScaleMerged ==
    /\ m_pc = "scaler"
    /\ m_scaled' = scaler(m_merged, NumCols)
    /\ m_ns' = m_ns \cup {"normalized_data", "min_values", "max_values"}
    /\ m_pc' = "kmeans"
    /\ UNCHANGED <<m_renew, m_access, m_raw, m_merged, m_zero, m_means, m_clustered, m_error>>
    /\ UNCHANGED <<errVars, scaleVars, backVars, diffVars, fitVars>>

\* kmeans.fit_predict(normalized_data) raises ValueError on a NaN cell or on
\* fewer samples than clusters; otherwise the labels become a column of
\* merged_data (their values are the library's and are not modelled).
Cluster ==
    /\ m_pc = "kmeans"
    /\ IF HasNaN(m_scaled.df_normalized) \/ Len(m_merged) < NClusters
       THEN /\ m_error' = "ValueError"
            /\ m_pc' = "aborted"
            /\ UNCHANGED <<m_clustered, m_ns>>
       ELSE /\ m_clustered' = TRUE
            /\ m_ns' = m_ns \cup {"kmeans", "cluster_labels"}
            /\ m_pc' = "plot_clusters"
            /\ UNCHANGED m_error
    /\ UNCHANGED <<m_renew, m_access, m_raw, m_merged, m_zero, m_means, m_scaled>>
    /\ UNCHANGED <<errVars, scaleVars, backVars, diffVars, fitVars>>

\* plt.scatter(x, y, c=merged_data['Cluster']): reading a name that is not
\* bound raises NameError and ends the run.
PlotClusters ==
    /\ m_pc = "plot_clusters"
    /\ IF {"x", "y"} \subseteq m_ns
       THEN m_pc' = "assign_xy" /\ UNCHANGED m_error
       ELSE m_pc' = "aborted" /\ m_error' = "NameError"
    /\ UNCHANGED <<m_renew, m_access, m_raw, m_merged, m_zero, m_means, m_scaled,
                   m_clustered, m_ns>>
    /\ UNCHANGED <<errVars, scaleVars, backVars, diffVars, fitVars>>

ScriptNext ==
    \/ Merge
    \/ FillNaZero
    \/ ColumnMeans
    \/ FillNaMeans
    \/ ScaleMerged
    \/ Cluster
    \/ PlotClusters

SpecScript == ScriptInit /\ [][ScriptNext]_vars

\* ------------------------------------- the fitting block, lines 166-194
\* The block as it runs once entered with x and y bound.  curve_fit is the
\* library's: it returns some parameter vector and some covariance matrix.
FitParams == [1..2 -> ParamVals]
CovDiagVals == {Rat(1, 10), Rat(1, 5), RInt(1)}
Covariances ==
    {<< <<v1, RInt(0)>>, <<RInt(0), v2>> >> : v1 \in CovDiagVals, v2 \in CovDiagVals}
Diag(cov) == <<cov[1][1], cov[2][2]>>

\* The sigma argument as written at lines 174 and 194: [0.1, 0.2].
SigmaArgument == <<Rat(1, 10), Rat(2, 10)>>

FitInit ==
    /\ f_params = [power |-> <<>>, sigmoid |-> <<>>]
    /\ f_underscore = <<>>
    /\ f_call = <<>>
    /\ f_pc = "fit_power"
    /\ ErrIdle /\ ScaleIdle /\ BackIdle /\ DiffIdle /\ ScriptIdle

\* params_power, _ = curve_fit(power_function, x, y)
FitPower ==
    /\ f_pc = "fit_power"
    /\ \E p \in FitParams, cov \in Covariances :
          /\ f_params' = [f_params EXCEPT !.power = p]
          /\ f_underscore' = cov
    /\ f_pc' = "err_power"
    /\ UNCHANGED f_call
    /\ UNCHANGED <<errVars, scaleVars, backVars, diffVars, scriptVars>>

\* err_ranges(x_pred_power, power_function, params_power, [0.1, 0.2]); f_call
\* keeps the arguments of the last call.
ErrRangesPower ==
    /\ f_pc = "err_power"
    /\ f_call' = [func |-> "power_function", param |-> f_params.power,
                  sigma |-> SigmaArgument]
    /\ f_pc' = "fit_sigmoid"
    /\ UNCHANGED <<f_params, f_underscore>>
    /\ UNCHANGED <<errVars, scaleVars, backVars, diffVars, scriptVars>>

\* params_sigmoid, _ = curve_fit(sigmoid_function, x, y)
FitSigmoid ==
    /\ f_pc = "fit_sigmoid"
    /\ \E p \in FitParams, cov \in Covariances :
          /\ f_params' = [f_params EXCEPT !.sigmoid = p]
          /\ f_underscore' = cov
    /\ f_pc' = "err_sigmoid"
    /\ UNCHANGED f_call
    /\ UNCHANGED <<errVars, scaleVars, backVars, diffVars, scriptVars>>

\* err_ranges(x_pred_sigmoid, sigmoid_function, params_sigmoid, [0.1, 0.2])
ErrRangesSigmoid ==
    /\ f_pc = "err_sigmoid"
    /\ f_call' = [func |-> "sigmoid_function", param |-> f_params.sigmoid,
                  sigma |-> SigmaArgument]
    /\ f_pc' = "done"
    /\ UNCHANGED <<f_params, f_underscore>>
    /\ UNCHANGED <<errVars, scaleVars, backVars, diffVars, scriptVars>>

FitNext == FitPower \/ ErrRangesPower \/ FitSigmoid \/ ErrRangesSigmoid

SpecFit == FitInit /\ [][FitNext]_vars

\* ================================================================== claims
RLt(a, b) == RLeq(a, b) /\ a # b
SetMin(S) == CHOOSE m \in S : \A v \in S : RLeq(m, v)
SetMax(S) == CHOOSE m \in S : \A v \in S : RLeq(v, m)
Range(f) == {f[i] : i \in DOMAIN f}
Perms(n) == {f \in [1..n -> 1..n] : \A i, j \in 1..n : f[i] = f[j] => i = j}
\* The visiting orders of up to 4 combinations.
Orders == [n \in {2, 4} |-> Perms(n)]

\* The 2^n endpoint combinations, as a set: one per choice of the parameters
\* that take + sigma.
Corners(param, sigma) ==
    {[i \in 1..Len(param) |-> IF i \in S THEN param[i] + sigma[i] ELSE param[i] - sigma[i]] :
        S \in SUBSET (1..Len(param))}

CornerVals(j) == {CallFunc(e_func, e_x[j], c) : c \in Corners(e_param, e_sigma)}
BaseVal(j) == CallFunc(e_func, e_x[j], e_param)

\* C1: the band err_ranges returns contains the model's value at the fitted
\* parameters, at every query point: lower[j] <= func(x_j, *param) <= upper[j].
C1_BaselineWithinBand ==
    e_pc = "returned" =>
        /\ Len(e_ret.lower) = Len(e_x)
        /\ Len(e_ret.upper) = Len(e_x)
        /\ \A j \in 1..Len(e_x) :
              /\ RLeq(e_ret.lower[j], BaseVal(j))
              /\ RLeq(BaseVal(j), e_ret.upper[j])

\* A returned band whose lower limit is the fitted curve itself, strictly
\* below every combination's curve, and whose upper limit is above it.
C1_Witness ==
    /\ e_pc = "returned"
    /\ \E j \in 1..Len(e_x) :
          /\ e_ret.lower[j] = BaseVal(j)
          /\ \A v \in CornerVals(j) : RLt(BaseVal(j), v)
          /\ RLt(BaseVal(j), e_ret.upper[j])

\* C2: err_ranges visits all 2^n endpoint combinations; lower[j] is exactly the
\* minimum and upper[j] exactly the maximum over the fitted curve and all 2^n
\* combination curves; visiting the combinations in another order gives the
\* same band (every order for up to 4 combinations, the reverse order always).
C2_ExactEnvelope ==
    e_pc = "returned" =>
        LET pmix == Product(UpLow(e_param, e_sigma))
            base == CallFuncArr(e_func, e_x, e_param)
            corners == Corners(e_param, e_sigma)
            n == Len(pmix)
        IN  /\ n = Pow(2, Len(e_param))
            /\ Range(pmix) = corners
            /\ \A j \in 1..Len(e_x) :
                  LET vals == {CallFunc(e_func, e_x[j], c) : c \in corners} \cup {base[j]}
                  IN  /\ e_ret.lower[j] = SetMin(vals)
                      /\ e_ret.upper[j] = SetMax(vals)
            /\ ErrLoop(e_func, e_x, [k \in 1..n |-> pmix[n + 1 - k]], base, base) = e_ret
            /\ n <= 4 =>
                  \A f \in Orders[n] :
                      ErrLoop(e_func, e_x, [k \in 1..n |-> pmix[f[k]]], base, base) = e_ret

\* A returned band over 8 distinct combinations whose lower limit is reached
\* only at a mixed combination (neither all minus nor all plus sigma).
C2_Witness ==
    /\ e_pc = "returned"
    /\ Len(e_param) = 3
    /\ Cardinality(Corners(e_param, e_sigma)) = 8
    /\ \E j \in 1..Len(e_x) :
          LET allMinus == [i \in 1..3 |-> e_param[i] - e_sigma[i]]
              allPlus == [i \in 1..3 |-> e_param[i] + e_sigma[i]]
          IN  /\ RLt(e_ret.lower[j], BaseVal(j))
              /\ RLt(e_ret.lower[j], CallFunc(e_func, e_x[j], allMinus))
              /\ RLt(e_ret.lower[j], CallFunc(e_func, e_x[j], allPlus))

ZeroRange(c) == s_scaled.df_max[c] = s_scaled.df_min[c]

\* C3: when no column has max = min, backscale applied to scaler's output and
\* scale record gives back the original table, cell for cell; [10, 20]
\* normalises to [0, 1].
C3_RoundTrip ==
    /\ (s_pc # "scaler" /\ s_df = << <<RInt(10)>>, <<RInt(20)>> >>)
          => s_scaled.df_normalized = << <<RInt(0)>>, <<RInt(1)>> >>
    /\ (s_pc = "done" /\ \A c \in 1..NCols(s_df) : ~ZeroRange(c))
          => /\ s_back.outcome = "returned"
             /\ s_back.arr = s_df

\* The round trip of a table with a cell strictly between its column's minimum
\* and maximum (a normalised value of 1/3).
C3_Witness ==
    /\ s_pc = "done"
    /\ \A c \in 1..NCols(s_df) : ~ZeroRange(c)
    /\ \E r \in 1..NRows(s_df) : s_scaled.df_normalized[r][1] = Rat(1, 3)
    /\ s_back.arr = s_df

\* C4: a column with max = min normalises to 0 in every cell, never to NaN.
C4_ZeroRangeGivesZero ==
    s_pc # "scaler" =>
        \A c \in 1..NCols(s_df) :
            ZeroRange(c) => \A r \in 1..NRows(s_df) : s_scaled.df_normalized[r][c] = RInt(0)

\* C5: when the array's column count differs from the scale record's length,
\* backscale ends with a DimensionMismatch error and returns nothing.
C5_DimensionMismatch ==
    (b_pc # "call" /\ NCols(b_arg) # Len(b_min)) => b_pc = "DimensionMismatch"

SymDiff(df1, df2) == (KeySet(df1) \ KeySet(df2)) \cup (KeySet(df2) \ KeySet(df1))

\* C6: get_diff_entries returns exactly the keys present in one table and
\* absent from the other; a table against itself gives the empty list; keys
\* {A,B,C} against {B,C,D} give [A, D].
C6_SymmetricDifference ==
    d_pc = "returned" =>
        /\ KeySet(d_ret) = SymDiff(d_df1, d_df2)
        /\ d_df1 = d_df2 => d_ret = <<>>
        /\ (d_df1 = <<1, 2, 3>> /\ d_df2 = <<2, 3, 4>>) => d_ret = <<1, 4>>

\* The documented scenario, returned.
C6_Witness ==
    /\ d_pc = "returned"
    /\ d_df1 = <<1, 2, 3>>
    /\ d_df2 = <<2, 3, 4>>
    /\ d_ret = <<1, 4>>

\* C8: backscale leaves the array it is given unchanged: after it returns, the
\* caller's array still holds the normalised centroids.
C8_ArgumentUnchanged ==
    b_pc = "returned" => b_arr = b_arg
\* C7: x and y are bound before every stage that reads them, so the run gets
\* past the cluster scatter plot without a NameError.
C7_XYBoundBeforeUse ==
    /\ m_pc = "plot_clusters" => {"x", "y"} \subseteq m_ns
    /\ m_error # "NameError"

\* C9: the sigma handed to err_ranges is the diagonal of the covariance the
\* fit of the same model returned.
C9_SigmaFromFit ==
    f_pc \in {"fit_sigmoid", "done"} => f_call.sigma = Diag(f_underscore)

AfterZeroFill == {"column_means", "fillna_means", "scaler", "kmeans", "plot_clusters",
                  "aborted"}
AfterMeanFill == {"scaler", "kmeans", "plot_clusters", "aborted"}
AfterScaler == {"kmeans", "plot_clusters", "aborted"}

\* C10: after the zero fill no cell is missing, the column-mean fill changes
\* no cell, and scaler receives the zero-filled table: every value missing
\* from the merge is 0 there.
C10_MeanFillChangesNothing ==
    /\ m_pc \in AfterZeroFill => ~HasNaN(m_zero)
    /\ m_pc \in AfterMeanFill =>
          /\ m_merged = m_zero
          /\ \A r \in 1..Len(m_raw) : \A c \in 1..NumCols :
                IsNaN(m_raw[r][c]) => m_merged[r][c] = RInt(0)
    /\ m_pc \in AfterScaler => m_scaled = scaler(m_zero, NumCols)

\* A merged table with a missing cell in a column whose mean is not 0, after
\* both fills: the cell is 0.
C10_Witness ==
    /\ m_pc = "scaler"
    /\ \E r \in 1..Len(m_raw) : \E c \in 1..NumCols :
          /\ IsNaN(m_raw[r][c])
          /\ m_means[c] # RInt(0)
          /\ Finite(m_means[c])
          /\ m_merged[r][c] = RInt(0)
====
